---------------------------- MODULE Spec2Model ----------------------------
(***************************************************************************)
(* fmt-cmp: comparison of values by their Display rendering.               *)
(*                                                                         *)
(*   SpecCmp   the streaming comparator generic::cmp / generic::eq         *)
(*             (src/src/cmp/generic.rs), one step per consumer callback    *)
(*   SpecHash  the streaming hash generic::hash                            *)
(*   SpecInt   the integer comparators cmp_int / cmp_dec                   *)
(*             (src/src/int/mod.rs, src/src/int/traits.rs)                 *)
(***************************************************************************)
EXTENDS Integers, Sequences, FiniteSets, TLC

(***************************************************************************)
(* Bounds of the model.                                                    *)
(***************************************************************************)
\* Longest rendering (in bytes) a producer emits.
MaxLen == 2
\* Largest number of chunks a producer splits its rendering into.
MaxChunks == 2

\* The bytes renderings are made of.
Bytes == {97, 98}

Min(m, n) == IF m <= n THEN m ELSE n

(***************************************************************************)
(* Producers: a Display value is the sequence of chunks its fmt passes to  *)
(* write_str, in order.  Chunks may be empty and a rendering may consist   *)
(* of no chunk at all (fmt returning Ok(()) without writing).              *)
(***************************************************************************)
RECURSIVE Concat(_)
Concat(chunks) ==
    IF chunks = <<>> THEN <<>> ELSE Head(chunks) \o Concat(Tail(chunks))

ChunkSet == UNION {[1..k -> Bytes] : k \in 0..MaxLen}

Producers ==
    {p \in UNION {[1..k -> ChunkSet] : k \in 0..MaxChunks} : Len(Concat(p)) <= MaxLen}

(***************************************************************************)
(* core::cmp::Ordering and the slice comparison used on byte ranges.       *)
(***************************************************************************)
Ordering == {"Less", "Equal", "Greater"}

\* Ordering::then
Then(o, other) == IF o = "Equal" THEN other ELSE o

\* Ordering::reverse
Reverse(o) == CASE o = "Less" -> "Greater" [] o = "Greater" -> "Less" [] OTHER -> o

\* <[u8] as Ord>::cmp, as generic.rs:99 applies it to two byte slices
RECURSIVE SliceCmp(_, _)
SliceCmp(x, y) ==
    IF x = <<>> /\ y = <<>> THEN "Equal"
    ELSE IF x = <<>> THEN "Less"
    ELSE IF y = <<>> THEN "Greater"
    ELSE IF Head(x) < Head(y) THEN "Less"
    ELSE IF Head(x) > Head(y) THEN "Greater"
    ELSE SliceCmp(Tail(x), Tail(y))

(***************************************************************************)
(* Unsigned integers.  The values of u32, u64 and u128 and the thresholds  *)
(* of their log10 (up to 10^32) are held as decimal numerals: sequences of *)
(* digits 0..9, most significant first, without leading zeros (zero is     *)
(* <<0>>).  The operators below are exact arithmetic on such numerals;     *)
(* operands of at most nine digits are computed on directly.               *)
(***************************************************************************)
Max(m, n) == IF m >= n THEN m ELSE n

\* the numeral of a number below 10^9, and back
RECURSIVE N(_)
N(n) == IF n < 10 THEN <<n>> ELSE N(n \div 10) \o <<n % 10>>

RECURSIVE Val(_)
Val(s) == IF s = <<>> THEN 0 ELSE 10 * Val(SubSeq(s, 1, Len(s) - 1)) + s[Len(s)]

Short(s) == Len(s) <= 9

\* a digit sequence without its leading zeros
Norm(s) ==
    IF \A i \in 1..Len(s) : s[i] = 0 THEN <<0>>
    ELSE SubSeq(s, CHOOSE i \in 1..Len(s) : s[i] # 0 /\ \A j \in 1..(i - 1) : s[j] = 0,
                Len(s))

\* digit i of numeral s counted from the least significant one (1-based)
DigitAt(s, i) == IF i <= Len(s) THEN s[Len(s) + 1 - i] ELSE 0

Zeros(k) == [i \in 1..k |-> 0]

\* 10^k
Pow10(k) == <<1>> \o Zeros(k)

IsPow10(s) == s[1] = 1 /\ \A i \in 2..Len(s) : s[i] = 0

NLt(u, v) ==
    \/ Len(u) < Len(v)
    \/ /\ Len(u) = Len(v)
       /\ \E i \in 1..Len(u) : u[i] < v[i] /\ \A j \in 1..(i - 1) : u[j] = v[j]

NLe(u, v) == ~NLt(v, u)

\* u + v, digit by digit from the least significant one; c is the carry
\* (the tests on c and acc only have them computed before the next digit)
RECURSIVE AddFrom(_, _, _, _, _)
AddFrom(u, v, i, c, acc) ==
    IF (i > Len(u) /\ i > Len(v)) \/ c < 0 \/ Len(acc) < 0 THEN Norm(<<c>> \o acc)
    ELSE AddFrom(u, v, i + 1, (DigitAt(u, i) + DigitAt(v, i) + c) \div 10,
                 <<(DigitAt(u, i) + DigitAt(v, i) + c) % 10>> \o acc)

NAdd(u, v) == AddFrom(u, v, 1, 0, <<>>)

\* u - v, for v <= u, digit by digit; bw is the borrow
RECURSIVE SubFrom(_, _, _, _, _)
SubFrom(u, v, i, bw, acc) ==
    IF i > Len(u) \/ bw < 0 \/ Len(acc) < 0 THEN Norm(acc)
    ELSE SubFrom(u, v, i + 1, IF DigitAt(u, i) - DigitAt(v, i) - bw < 0 THEN 1 ELSE 0,
                 <<(DigitAt(u, i) - DigitAt(v, i) - bw + 10) % 10>> \o acc)

NSub(u, v) == SubFrom(u, v, 1, 0, <<>>)

\* u * v by the schoolbook method, one digit of v at a time (acc is never
\* empty: the test on it only has acc computed before the next digit)
RECURSIVE MulAcc(_, _, _)
MulAcc(u, v, acc) ==
    IF v = <<>> \/ acc = <<>> THEN acc
    ELSE LET d == Head(v)
             ud == IF d = 0 THEN <<0>>
                   ELSE LET two == NAdd(u, u)
                            four == NAdd(two, two)
                            eight == NAdd(four, four)
                        IN CASE d = 1 -> u
                             [] d = 2 -> two
                             [] d = 3 -> NAdd(two, u)
                             [] d = 4 -> four
                             [] d = 5 -> NAdd(four, u)
                             [] d = 6 -> NAdd(four, two)
                             [] d = 7 -> NSub(eight, u)
                             [] d = 8 -> eight
                             [] d = 9 -> NAdd(eight, u)
         IN MulAcc(u, Tail(v), NAdd(Norm(acc \o <<0>>), ud))

NMul(u, v) ==
    IF u = <<0>> \/ v = <<0>> THEN <<0>>
    ELSE IF IsPow10(v) THEN u \o Zeros(Len(v) - 1)
    ELSE IF IsPow10(u) THEN v \o Zeros(Len(u) - 1)
    ELSE IF Len(u) + Len(v) <= 9 THEN N(Val(u) * Val(v))
    ELSE MulAcc(u, v, <<0>>)

\* how often v fits into r (r < 10 * v), and what is left
RECURSIVE Fit(_, _, _)
Fit(r, v, k) == IF NLt(r, v) THEN [q |-> k, r |-> r] ELSE Fit(NSub(r, v), v, k + 1)

\* long division of u by v # 0, digit by digit (Len(q) < 0 never holds: the
\* test only has q computed before the next digit)
RECURSIVE DivFrom(_, _, _, _)
DivFrom(u, v, q, r) ==
    IF u = <<>> \/ Len(q) < 0 THEN [q |-> Norm(q), r |-> r]
    ELSE LET f == Fit(Norm(r \o <<Head(u)>>), v, 0)
         IN DivFrom(Tail(u), v, q \o <<f.q>>, f.r)

\* division of u by a divisor d of at most eight digits, given as a number:
\* digit i of u is brought down to the remainder r of the digits before it
\* (the tests on q and r only have them computed before the next digit)
RECURSIVE ShortDiv(_, _, _, _, _)
ShortDiv(u, i, d, q, r) ==
    IF i > Len(u) \/ Len(q) < 0 \/ r < 0 THEN [q |-> Norm(q), r |-> N(r)]
    ELSE ShortDiv(u, i + 1, d, q \o <<(10 * r + u[i]) \div d>>, (10 * r + u[i]) % d)

\* floor(u / v), for v # 0
NDiv(u, v) ==
    IF NLt(u, v) THEN <<0>>
    ELSE IF IsPow10(v) THEN SubSeq(u, 1, Len(u) + 1 - Len(v))
    ELSE IF Short(u) THEN N(Val(u) \div Val(v))
    ELSE IF Len(v) <= 8 THEN ShortDiv(u, 1, Val(v), <<>>, 0).q
    ELSE DivFrom(u, v, <<>>, <<0>>).q

\* u mod v, for v # 0
NMod(u, v) ==
    IF NLt(u, v) THEN u
    ELSE IF IsPow10(v) THEN Norm(SubSeq(u, Len(u) + 2 - Len(v), Len(u)))
    ELSE IF Short(u) THEN N(Val(u) % Val(v))
    ELSE IF Len(v) <= 8 THEN ShortDiv(u, 1, Val(v), <<>>, 0).r
    ELSE DivFrom(u, v, <<>>, <<0>>).r

VARIABLES
    a, b,               \* the two values handed to the comparator
    call,               \* 0: no call yet, 1: cmp(a, b), 2: cmp(b, a)
    pc,                 \* "idle", "outer", "inner", "done"
    ret,                \* State.ret
    rhs_is_remaining,   \* State.rhs_is_remaining
    pos,                \* Rhs.pos
    li,                 \* chunks the lhs rendering has emitted so far
    outerStop,          \* Rhs::write_str returned Err: the lhs rendering stops
    lhsRest,            \* Lhs.lhs, the part of the lhs chunk not yet matched
    skip,               \* Lhs.skip
    ri,                 \* chunks the current rhs rendering has emitted so far
    innerStop,          \* Lhs::write_str returned Err: the rhs rendering stops
    lhsFmt, rhsFmt,     \* calls of Display::fmt on lhs and on rhs in this call
    result,             \* the Ordering the current call returned
    res1,               \* the Ordering the first call returned
    aEnd, bEnd,         \* how fmt ends once the chunks of a, resp. b, are emitted: "ok"
                        \* (returns Ok), "err" (returns Err), "loop" (emits the last
                        \* chunk again, for ever)
    ownErr,             \* a write! of this call returned an Err no adapter had raised
    hpc,                \* hash: "idle", "a", "b" (the value being hashed), "done"
    hasherA, hasherB,   \* the calls made on the Hasher a, resp. b, is hashed into
    hi,                 \* chunks the rendering of the hashee has emitted so far
    hashFmt,            \* calls of Display::fmt on the hashee in this call
    valsA, valsB,       \* the values hashed, one after another, into hasherA, resp. hasherB
    hn,                 \* the place of the hashee among them
    hst,                \* the hash call: "idle" (none yet), "fmt" (the hashee is being
                        \* rendered), "returned", "panic"
    ty,                 \* the integer type T of cmp_int::<T> / cmp_dec::<T>
    ilhs, irhs,         \* the two integers compared
    radix,              \* the radix of the last cmp_int call (a u32)
    iexp,               \* the exp of the last invpow call (a u32)
    build,              \* "debug": overflow checks and debug assertions on
    ipc,                \* "ready", "once" (f(ilhs, irhs) returned), "twice" (f(irhs, ilhs) too)
    ifn,                \* the function called: "cmp_int", "cmp_dec", or "invpow",
                        \* "checked_log10" called on its own
    ist,                \* the call's next step: "idle" (no call running), "ilog_max",
                        \* "ilog_min", "invpow", "lt"; "narrow" (checked_log10 at
                        \* its assertions)
    reversed,           \* imp!: reversed
    imax, imin,         \* imp!: the greater and the lesser operand ($max, $min)
    lmax, lmin,         \* what max.ilog(..) and min.ilog(..) returned
    aligned,            \* what max.invpow(..) returned
    ires,               \* what the last call returned, or "panic"
    iops,               \* the calls the last call made on its operands
    ires1               \* what the call before it returned

cmpVars == <<a, b, call, pc, ret, rhs_is_remaining, pos, li, outerStop, lhsRest,
             skip, ri, innerStop, lhsFmt, rhsFmt, result, res1, aEnd, bEnd, ownErr>>

hashVars == <<hpc, hasherA, hasherB, hi, hashFmt, valsA, valsB, hn, hst>>

intVars == <<ty, ilhs, irhs, radix, iexp, build, ipc, ifn, ist, reversed, imax, imin,
             lmax, lmin, aligned, ires, iops, ires1>>

vars == <<cmpVars, hashVars, intVars>>

\* the operands of the current call
lhs == IF call = 2 THEN b ELSE a
rhs == IF call = 2 THEN a ELSE b

\* how their fmt ends
lhsEnd == IF call = 2 THEN bEnd ELSE aEnd
rhsEnd == IF call = 2 THEN aEnd ELSE bEnd

\* the chunks an unbounded producer is followed through
MaxEmit == 6

\* Display::fmt of producer p, of which n chunks were accepted, has a next
\* chunk to emit
More(p, end, n) == n < Len(p) \/ (end = "loop" /\ n < MaxEmit)

\* the n-th chunk it emits
ChunkAt(p, n) == p[Min(n, Len(p))]

\* it has emitted its last chunk and returns
Returns(p, end, n) == n >= Len(p) /\ end # "loop"

(***************************************************************************)
(* generic::cmp                                                            *)
(***************************************************************************)
\* no call of cmp has been made
CmpIdle ==
    /\ call = 0
    /\ pc = "idle"
    /\ ret = "Equal"
    /\ rhs_is_remaining = FALSE
    /\ pos = 0
    /\ li = 0
    /\ outerStop = FALSE
    /\ lhsRest = <<>>
    /\ skip = 0
    /\ ri = 0
    /\ innerStop = FALSE
    /\ lhsFmt = 0
    /\ rhsFmt = 0
    /\ result = "none"
    /\ res1 = "none"
    /\ ownErr = FALSE

\* no call of hash has been made; the two Hashers are in the same state
HashIdle ==
    /\ hpc = "idle"
    /\ hasherA = <<>>
    /\ hasherB = <<>>
    /\ hi = 0
    /\ hashFmt = 0
    /\ hn = 0
    /\ hst = "idle"

(***************************************************************************)
(* src/src/int/traits.rs: the integer types and their digit metric.        *)
(* A call either returns a value or panics.                                *)
(***************************************************************************)
Types == {"u8", "u16", "u32", "u64", "u128", "usize"}

\* cfg(target_pointer_width = "64")
PointerWidth == 64

Bits(t) ==
    CASE t = "u8" -> 8
      [] t = "u16" -> 16
      [] t = "u32" -> 32
      [] t = "u64" -> 64
      [] t = "u128" -> 128
      [] t = "usize" -> PointerWidth

\* 2^8, 2^16, 2^32, 2^64, 2^128
TwoPow ==
    [k \in {8, 16, 32, 64, 128} |->
        CASE k = 8 -> <<2,5,6>>
          [] k = 16 -> <<6,5,5,3,6>>
          [] k = 32 -> <<4,2,9,4,9,6,7,2,9,6>>
          [] k = 64 -> <<1,8,4,4,6,7,4,4,0,7,3,7,0,9,5,5,1,6,1,6>>
          [] k = 128 -> <<3,4,0,2,8,2,3,6,6,9,2,0,9,3,8,4,6,3,4,6,
                          3,3,7,4,6,0,7,4,3,1,7,6,8,2,1,1,4,5,6>>]

\* T::MAX, !0
MaxVal == [t \in Types |-> NSub(TwoPow[Bits(t)], <<1>>)]

MaxOf(t) == MaxVal[t]

\* v as T
AsCast(v, t) == NMod(v, TwoPow[Bits(t)])

Ok(v) == [panic |-> FALSE, val |-> v]
Panic == [panic |-> TRUE, val |-> <<>>]

\* the loop of checked_log, traits.rs:42-47; n counts up from 0
RECURSIVE LogLoop(_, _, _)
LogLoop(self, base, n) ==
    IF n >= 0 /\ NLe(base, self) THEN LogLoop(NDiv(self, base), base, n + 1) ELSE n

\* checked_log refusing every base below 2
checked_log_Strict(self, base) ==
    IF NLe(base, <<1>>) THEN Panic ELSE Ok(LogLoop(self, base, 0))

\* Sealed::checked_log, traits.rs:34-48 (Some(n) is Ok(n))
checked_log(self, base) ==
    IF NLe(base, <<1>>)
    THEN IF NLt(<<0>>, base) THEN Ok(0) ELSE Panic
    ELSE Ok(LogLoop(self, base, 0))

\* Sealed::log, traits.rs:53-59 (called ilog in int/mod.rs)
log(t, self, base) == checked_log(self, AsCast(base, t))

\* u32::checked_log10, traits.rs:103-116
Log10U32(self, bld) ==
    LET big == NLe(Pow10(5), self)
        s == IF big THEN NDiv(self, Pow10(5)) ELSE self
        n == IF big THEN 5 ELSE 0
    IN IF ~NLe(NDiv(MaxOf("u32"), Pow10(5)), MaxOf("u16")) THEN Panic
       ELSE IF bld = "debug" /\ ~NLe(s, MaxOf("u16")) THEN Panic
       ELSE LET l == log("u16", AsCast(s, "u16"), <<1, 0>>)
            IN IF l.panic THEN Panic ELSE Ok(l.val + n)

\* u64::checked_log10, traits.rs:123-133
Log10U64(self, bld) ==
    LET big == NLe(Pow10(10), self)
        s == IF big THEN NDiv(self, Pow10(10)) ELSE self
        n == IF big THEN 10 ELSE 0
    IN IF ~NLe(NDiv(MaxOf("u64"), Pow10(10)), MaxOf("u32")) THEN Panic
       ELSE IF bld = "debug" /\ ~NLe(s, MaxOf("u32")) THEN Panic
       ELSE LET l == log("u32", AsCast(s, "u32"), <<1, 0>>)
            IN IF l.panic THEN Panic ELSE Ok(l.val + n)

\* u128::checked_log10, traits.rs:140-159
Log10U128(self, bld) ==
    IF NLe(Pow10(32), self)
    THEN LET s == NDiv(self, Pow10(32))
         IN IF ~NLe(NDiv(MaxOf("u128"), Pow10(32)), MaxOf("u32")) THEN Panic
            ELSE IF bld = "debug" /\ ~NLe(s, MaxOf("u32")) THEN Panic
            ELSE LET l == log("u32", AsCast(s, "u32"), <<1, 0>>)
                 IN IF l.panic THEN Panic ELSE Ok(l.val + 32)
    ELSE LET big == NLe(Pow10(16), self)
             s == IF big THEN NDiv(self, Pow10(16)) ELSE self
             n == IF big THEN 16 ELSE 0
         IN IF ~NLe(NDiv(NSub(Pow10(32), <<1>>), Pow10(16)), MaxOf("u64")) THEN Panic
            ELSE IF bld = "debug" /\ ~NLe(s, MaxOf("u64")) THEN Panic
            ELSE LET l == log("u64", AsCast(s, "u64"), <<1, 0>>)
                 IN IF l.panic THEN Panic ELSE Ok(l.val + n)

\* Sealed::checked_log10 of each type, traits.rs:99-196
checked_log10(t, self, bld) ==
    CASE t = "u32" -> Log10U32(self, bld)
      [] t = "u64" -> Log10U64(self, bld)
      [] t = "u128" -> Log10U128(self, bld)
      [] t = "usize" /\ PointerWidth = 64 -> Log10U64(AsCast(self, "u64"), bld)
      [] t = "usize" /\ PointerWidth = 32 -> Log10U32(AsCast(self, "u32"), bld)
      [] OTHER -> checked_log(self, <<1, 0>>)

\* Sealed::log10, traits.rs:62-68 (called ilog10 in int/mod.rs)
log10(t, self, bld) == checked_log10(t, self, bld)

\* the loop and the last division of invpow, traits.rs:83-91; exp is a
\* numeral.  base * base beyond T::MAX panics with overflow checks and wraps
\* without; a division by zero panics.  (The tests on the lengths only have
\* self and base computed before the next round.)
RECURSIVE InvpowLoop(_, _, _, _, _)
InvpowLoop(t, self, base, exp, bld) ==
    IF Len(self) > 0 /\ Len(base) > 0 /\ NLt(<<1>>, exp)
    THEN IF exp[Len(exp)] % 2 = 1 /\ base = <<0>> THEN Panic
         ELSE IF bld = "debug" /\ NLt(MaxOf(t), NMul(base, base)) THEN Panic
         ELSE InvpowLoop(t, IF exp[Len(exp)] % 2 = 1 THEN NDiv(self, base) ELSE self,
                         AsCast(NMul(base, base), t), NDiv(exp, <<2>>), bld)
    ELSE IF base = <<0>> THEN Panic ELSE Ok(NDiv(self, base))

\* Sealed::invpow, traits.rs:70-92
invpow(t, self, base, exp, bld) ==
    IF exp = <<0>> THEN Ok(self) ELSE InvpowLoop(t, self, AsCast(base, t), exp, bld)

\* x - y on u32, mod.rs:74, 91: below zero it panics with overflow checks
\* and wraps without
SubU32(x, y, bld) ==
    IF x >= y THEN Ok(N(x - y))
    ELSE IF bld = "debug" THEN Panic
    ELSE Ok(NSub(NAdd(TwoPow[32], N(x)), N(y)))

\* no call of cmp_int or cmp_dec is running
NoCall ==
    /\ ist = "idle"
    /\ reversed = FALSE
    /\ imax = <<0>>
    /\ imin = <<0>>
    /\ lmax = Ok(0)
    /\ lmin = Ok(0)
    /\ aligned = Ok(<<0>>)

\* no integer comparison has been made
IntIdle ==
    /\ radix = <<0>>
    /\ iexp = <<0>>
    /\ ipc = "ready"
    /\ ifn = "none"
    /\ NoCall
    /\ ires = "none"
    /\ iops = <<>>
    /\ ires1 = "none"

\* no integers are at hand
NoInts ==
    /\ ty = "u8"
    /\ ilhs = <<0>>
    /\ irhs = <<0>>
    /\ build = "debug"
    /\ IntIdle

(***************************************************************************)
(* Calls of cmp_int and cmp_dec: f(ilhs, irhs), then f(irhs, ilhs), as in   *)
(* tests::matches_str_cmp.                                                 *)
(***************************************************************************)
MaxSmall == 2

\* 10^k - 1, 10^k and 10^k + 1
Around(k) == {NSub(Pow10(k), <<1>>), Pow10(k), NAdd(Pow10(k), <<1>>)}

\* the exponents of the thresholds of the specialised log10 of each type
\* (traits.rs:104, 124, 141, 147)
Thresholds(t) ==
    CASE t = "u32" -> {5}
      [] t \in {"u64", "usize"} -> {10}
      [] t = "u128" -> {16, 32}
      [] OTHER -> {}

\* the type the specialised log10 of each type casts its operand to
\* (traits.rs:115, 132, 145, 158)
Narrower(t) ==
    CASE t = "u32" -> {"u16"}
      [] t \in {"u64", "usize"} -> {"u32"}
      [] t = "u128" -> {"u64"}
      [] OTHER -> {}

\* the operands tried for each type: the small numbers, an operand of
\* tests::matches_str_cmp, the numbers around 10 and around the thresholds,
\* the greatest number of the narrower type and the number after it,
\* T::MAX - 1 and T::MAX
Values ==
    [t \in Types |->
        {N(n) : n \in 0..MaxSmall} \cup {N(42)} \cup Around(1)
        \cup UNION {Around(k) : k \in Thresholds(t)}
        \cup UNION {{MaxOf(n), TwoPow[Bits(n)]} : n \in Narrower(t)}
        \cup {NSub(MaxOf(t), <<1>>), MaxOf(t)}]

\* the radixes tried for each type (a radix is a u32): 0, 1, 10 and 16, and
\* for the types a u32 does not fit into or just fits into, a radix beyond
\* the digits 0-9A-Z and radixes around their T::MAX up to u32::MAX
Radixes ==
    [t \in Types |->
        {N(0), N(1), N(10), N(16)}
        \cup IF Bits(t) <= 32
             THEN {N(37), N(256), N(300), N(65536), N(65537), MaxOf("u32")}
             ELSE {}]

Builds == {"debug", "release"}

InitInt ==
    /\ a = <<>>
    /\ b = <<>>
    /\ aEnd = "ok"
    /\ bEnd = "ok"
    /\ CmpIdle
    /\ HashIdle
    /\ valsA = <<>>
    /\ valsB = <<>>
    /\ ty \in Types
    /\ ilhs \in Values[ty]
    /\ irhs \in Values[ty]
    /\ build \in Builds
    /\ IntIdle

\* the call returns o, or panics (o = "panic")
Return(o) ==
    /\ ires' = o
    /\ ist' = "idle"
    /\ ipc' = IF ipc = "ready" THEN "once" ELSE "twice"

\* imp!, mod.rs:11-19, on the operands (x, y): they are tested and put in
\* order, and the call returns if they are equal
Imp(x, y) ==
    /\ iops' = IF NLt(x, y) THEN <<"lt">> ELSE <<"lt", "eq">>
    /\ IF ~NLt(x, y) /\ x = y
       THEN /\ Return("Equal")
            /\ UNCHANGED <<reversed, imax, imin>>
       ELSE /\ reversed' = NLt(x, y)
            /\ imax' = IF NLt(x, y) THEN y ELSE x
            /\ imin' = IF NLt(x, y) THEN x ELSE y
            /\ ires' = "none"
            /\ ist' = "ilog_max"
            /\ UNCHANGED ipc
    /\ UNCHANGED <<lmax, lmin, aligned>>

\* cmp_int(x, y, radix) up to the first step of imp!, mod.rs:67-72
CmpInt(x, y, r) ==
    IF r = <<0>>
    THEN /\ Return("panic")
         /\ iops' = <<>>
         /\ UNCHANGED <<reversed, imax, imin, lmax, lmin, aligned>>
    ELSE Imp(x, y)

\* cmp_int(ilhs, irhs, r) without the test of r
CmpIntCall_Unchecked ==
    /\ ipc = "ready"
    /\ ist = "idle"
    /\ \E r \in Radixes[ty] : radix' = r
    /\ Imp(ilhs, irhs)
    /\ ifn' = "cmp_int"
    /\ UNCHANGED <<ty, ilhs, irhs, iexp, build, ires1>>
    /\ UNCHANGED <<cmpVars, hashVars>>

\* cmp_int(ilhs, irhs, r) is called
CmpIntCall ==
    /\ ipc = "ready"
    /\ ist = "idle"
    /\ \E r \in Radixes[ty] :
          /\ radix' = r
          /\ CmpInt(ilhs, irhs, r)
    /\ ifn' = "cmp_int"
    /\ UNCHANGED <<ty, ilhs, irhs, iexp, build, ires1>>
    /\ UNCHANGED <<cmpVars, hashVars>>

\* cmp_dec(ilhs, irhs) is called, mod.rs:88-89
CmpDecCall ==
    /\ ipc = "ready"
    /\ ist = "idle"
    /\ Imp(ilhs, irhs)
    /\ ifn' = "cmp_dec"
    /\ UNCHANGED <<ty, ilhs, irhs, radix, iexp, build, ires1>>
    /\ UNCHANGED <<cmpVars, hashVars>>

\* the same function is called on the swapped operands: f(irhs, ilhs)
SwappedCall ==
    /\ ipc = "once"
    /\ ist = "idle"
    /\ IF ifn = "cmp_int" THEN CmpInt(irhs, ilhs, radix) ELSE Imp(irhs, ilhs)
    /\ ires1' = ires
    /\ UNCHANGED <<ty, ilhs, irhs, radix, iexp, build, ifn>>
    /\ UNCHANGED <<cmpVars, hashVars>>

\* max.ilog(radix), mod.rs:74, resp. max.ilog10(), mod.rs:91
LogMax ==
    /\ ist = "ilog_max"
    /\ lmax' = IF ifn = "cmp_int" THEN log(ty, imax, radix) ELSE log10(ty, imax, build)
    /\ iops' = Append(iops, IF ifn = "cmp_int" THEN "ilog" ELSE "ilog10")
    /\ ist' = "ilog_min"
    /\ UNCHANGED <<ty, ilhs, irhs, radix, iexp, build, ipc, ifn, reversed, imax, imin,
                   lmin, aligned, ires, ires1>>
    /\ UNCHANGED <<cmpVars, hashVars>>

\* min.ilog(radix), mod.rs:74, resp. min.ilog10(), mod.rs:91
LogMin ==
    /\ ist = "ilog_min"
    /\ ~lmax.panic
    /\ lmin' = IF ifn = "cmp_int" THEN log(ty, imin, radix) ELSE log10(ty, imin, build)
    /\ iops' = Append(iops, IF ifn = "cmp_int" THEN "ilog" ELSE "ilog10")
    /\ ist' = "invpow"
    /\ UNCHANGED <<ty, ilhs, irhs, radix, iexp, build, ipc, ifn, reversed, imax, imin,
                   lmax, aligned, ires, ires1>>
    /\ UNCHANGED <<cmpVars, hashVars>>

\* max.invpow(radix, max.ilog(radix) - min.ilog(radix)), mod.rs:72-74, resp.
\* max.invpow(10_u32, max.ilog10() - min.ilog10()), mod.rs:89-91
Invpow ==
    /\ ist = "invpow"
    /\ ~lmin.panic
    /\ LET exp == SubU32(lmax.val, lmin.val, build)
       IN /\ aligned' = IF exp.panic THEN Panic
                        ELSE invpow(ty, imax, IF ifn = "cmp_int" THEN radix ELSE <<1, 0>>,
                                    exp.val, build)
          /\ iexp' = IF exp.panic THEN iexp ELSE exp.val
    /\ iops' = Append(iops, "invpow")
    /\ ist' = "lt"
    /\ UNCHANGED <<ty, ilhs, irhs, radix, build, ipc, ifn, reversed, imax, imin,
                   lmax, lmin, ires, ires1>>
    /\ UNCHANGED <<cmpVars, hashVars>>

\* imp!, mod.rs:28-34: the aligned greater operand against the lesser one
Compare ==
    /\ ist = "lt"
    /\ ~aligned.panic
    /\ Return(IF NLt(aligned.val, imin) # reversed THEN "Less" ELSE "Greater")
    /\ iops' = Append(iops, "lt")
    /\ UNCHANGED <<ty, ilhs, irhs, radix, iexp, build, ifn, reversed, imax, imin,
                   lmax, lmin, aligned, ires1>>
    /\ UNCHANGED <<cmpVars, hashVars>>

\* ilog, ilog10 or invpow has panicked: so does the call
Unwind ==
    /\ \/ ist = "ilog_min" /\ lmax.panic
       \/ ist = "invpow" /\ lmin.panic
       \/ ist = "lt" /\ aligned.panic
    /\ Return("panic")
    /\ UNCHANGED <<ty, ilhs, irhs, radix, iexp, build, ifn, reversed, imax, imin,
                   lmax, lmin, aligned, iops, ires1>>
    /\ UNCHANGED <<cmpVars, hashVars>>

NextInt ==
    \/ CmpIntCall
    \/ CmpDecCall
    \/ SwappedCall
    \/ LogMax
    \/ LogMin
    \/ Invpow
    \/ Compare
    \/ Unwind

SpecInt == InitInt /\ [][NextInt]_vars

\* the operands of the last call
ilast == IF ipc = "twice" THEN irhs ELSE ilhs
irlast == IF ipc = "twice" THEN ilhs ELSE irhs

\* the producers of SpecCmp, SpecInt and SpecHashSeq: fmt returns Ok once the
\* chunks are emitted
EndOk ==
    /\ aEnd = "ok"
    /\ bEnd = "ok"

\* no sequence of values is hashed
NoVals ==
    /\ valsA = <<>>
    /\ valsB = <<>>

InitCmp ==
    /\ a \in Producers
    /\ b \in Producers
    /\ EndOk
    /\ CmpIdle
    /\ HashIdle
    /\ NoVals
    /\ NoInts

\* generic.rs:22-31: the state is built and the rendering of lhs starts.
Enter(n) ==
    /\ call' = n
    /\ pc' = "outer"
    /\ ret' = "Equal"
    /\ rhs_is_remaining' = FALSE
    /\ pos' = 0
    /\ li' = 0
    /\ outerStop' = FALSE
    /\ lhsRest' = <<>>
    /\ skip' = 0
    /\ ri' = 0
    /\ innerStop' = FALSE
    /\ lhsFmt' = 1
    /\ rhsFmt' = 0
    /\ result' = "none"
    /\ ownErr' = FALSE

\* cmp(a, b)
CmpCall ==
    /\ pc = "idle"
    /\ Enter(1)
    /\ UNCHANGED <<a, b, res1, aEnd, bEnd>>
    /\ UNCHANGED <<hashVars, intVars>>

\* cmp(b, a), once cmp(a, b) has returned
CmpCallSwapped ==
    /\ pc = "done"
    /\ call = 1
    /\ res1' = result
    /\ Enter(2)
    /\ UNCHANGED <<a, b, aEnd, bEnd>>
    /\ UNCHANGED <<hashVars, intVars>>

\* LhsEmit with the rendering of rhs resumed where the last one stopped
\* instead of being started again.
LhsEmit_Resume ==
    /\ pc = "outer"
    /\ ~outerStop
    /\ More(lhs, lhsEnd, li)
    /\ li' = li + 1
    /\ rhs_is_remaining' = FALSE
    /\ lhsRest' = ChunkAt(lhs, li + 1)
    /\ skip' = IF rhsFmt = 0 THEN pos ELSE 0
    /\ ri' = ri
    /\ innerStop' = FALSE
    /\ rhsFmt' = IF rhsFmt = 0 THEN 1 ELSE rhsFmt
    /\ pc' = "inner"
    /\ UNCHANGED <<a, b, call, ret, pos, outerStop, lhsFmt, result, res1, aEnd, bEnd,
                   ownErr>>
    /\ UNCHANGED <<hashVars, intVars>>

\* Rhs::write_str, generic.rs:47-61: lhs emits its next chunk; the consumer
\* resets the flag, builds the inner adapter and starts a rendering of rhs.
LhsEmit ==
    /\ pc = "outer"
    /\ ~outerStop
    /\ More(lhs, lhsEnd, li)
    /\ li' = li + 1
    /\ rhs_is_remaining' = FALSE
    /\ lhsRest' = ChunkAt(lhs, li + 1)
    /\ skip' = pos
    /\ ri' = 0
    /\ innerStop' = FALSE
    /\ rhsFmt' = rhsFmt + 1
    /\ pc' = "inner"
    /\ UNCHANGED <<a, b, call, ret, pos, outerStop, lhsFmt, result, res1, aEnd, bEnd,
                   ownErr>>
    /\ UNCHANGED <<hashVars, intVars>>

\* RhsEmit going on with the rendering of rhs after a mismatch.
RhsEmit_NoStop ==
    /\ pc = "inner"
    /\ ~innerStop
    /\ More(rhs, rhsEnd, ri)
    /\ LET chunk == ChunkAt(rhs, ri + 1)
           sk == Min(skip, Len(chunk))
           rest == SubSeq(chunk, sk + 1, Len(chunk))
           read == Min(Len(rest), Len(lhsRest))
           c == SliceCmp(SubSeq(lhsRest, 1, read), SubSeq(rest, 1, read))
       IN /\ skip' = skip - sk
          /\ ret' = c
          /\ IF c # "Equal"
             THEN /\ innerStop' = FALSE
                  /\ UNCHANGED <<lhsRest, rhs_is_remaining>>
             ELSE /\ lhsRest' = SubSeq(lhsRest, read + 1, Len(lhsRest))
                  /\ rhs_is_remaining' = (rhs_is_remaining \/ Len(rest) > read)
                  /\ innerStop' = (Len(rest) > read)
    /\ ri' = ri + 1
    /\ UNCHANGED <<a, b, call, pc, pos, li, outerStop, lhsFmt, rhsFmt, result, res1,
                   aEnd, bEnd, ownErr>>
    /\ UNCHANGED <<hashVars, intVars>>

\* Lhs::write_str, generic.rs:86-120: rhs emits its next chunk.
RhsEmit ==
    /\ pc = "inner"
    /\ ~innerStop
    /\ More(rhs, rhsEnd, ri)
    /\ LET chunk == ChunkAt(rhs, ri + 1)
           sk == Min(skip, Len(chunk))
           rest == SubSeq(chunk, sk + 1, Len(chunk))
           read == Min(Len(rest), Len(lhsRest))
           c == SliceCmp(SubSeq(lhsRest, 1, read), SubSeq(rest, 1, read))
       IN /\ skip' = skip - sk
          /\ ret' = c
          /\ IF c # "Equal"
             THEN /\ innerStop' = TRUE
                  /\ UNCHANGED <<lhsRest, rhs_is_remaining>>
             ELSE /\ lhsRest' = SubSeq(lhsRest, read + 1, Len(lhsRest))
                  /\ rhs_is_remaining' = (rhs_is_remaining \/ Len(rest) > read)
                  /\ innerStop' = (Len(rest) > read)
    /\ ri' = ri + 1
    /\ UNCHANGED <<a, b, call, pc, pos, li, outerStop, lhsFmt, rhsFmt, result, res1,
                   aEnd, bEnd, ownErr>>
    /\ UNCHANGED <<hashVars, intVars>>

\* RhsFinish setting pos to the length of the chunk instead of adding it.
RhsFinish_SetPos ==
    /\ pc = "inner"
    /\ innerStop \/ Returns(rhs, rhsEnd, ri)
    /\ IF ret # "Equal"
       THEN /\ outerStop' = TRUE
            /\ UNCHANGED <<ret, pos>>
       ELSE IF lhsRest # <<>>
       THEN /\ ret' = "Greater"
            /\ outerStop' = TRUE
            /\ UNCHANGED pos
       ELSE /\ pos' = Len(ChunkAt(lhs, li))
            /\ UNCHANGED <<ret, outerStop>>
    /\ ownErr' = (ownErr \/ (~innerStop /\ rhsEnd = "err"))
    /\ pc' = "outer"
    /\ UNCHANGED <<a, b, call, rhs_is_remaining, li, lhsRest, skip, ri, innerStop,
                   lhsFmt, rhsFmt, result, res1, aEnd, bEnd>>
    /\ UNCHANGED <<hashVars, intVars>>

\* Rhs::write_str, generic.rs:61-81: the rendering of rhs has returned (rhs
\* is exhausted, or the inner consumer stopped it) and what it returned is
\* dropped.
RhsFinish ==
    /\ pc = "inner"
    /\ innerStop \/ Returns(rhs, rhsEnd, ri)
    /\ IF ret # "Equal"
       THEN /\ outerStop' = TRUE
            /\ UNCHANGED <<ret, pos>>
       ELSE IF lhsRest # <<>>
       THEN /\ ret' = "Greater"
            /\ outerStop' = TRUE
            /\ UNCHANGED pos
       ELSE /\ pos' = pos + Len(ChunkAt(lhs, li))
            /\ UNCHANGED <<ret, outerStop>>
    /\ ownErr' = (ownErr \/ (~innerStop /\ rhsEnd = "err"))
    /\ pc' = "outer"
    /\ UNCHANGED <<a, b, call, rhs_is_remaining, li, lhsRest, skip, ri, innerStop,
                   lhsFmt, rhsFmt, result, res1, aEnd, bEnd>>
    /\ UNCHANGED <<hashVars, intVars>>

\* CmpReturn handing on the Err of a producer that failed on its own.
CmpReturn_Propagate ==
    /\ pc = "outer"
    /\ outerStop \/ Returns(lhs, lhsEnd, li)
    /\ ownErr' = (ownErr \/ (~outerStop /\ lhsEnd = "err"))
    /\ result' = IF ownErr \/ (~outerStop /\ lhsEnd = "err") THEN "Err"
                 ELSE Then(ret, IF rhs_is_remaining THEN "Less" ELSE "Equal")
    /\ pc' = "done"
    /\ UNCHANGED <<a, b, call, ret, rhs_is_remaining, pos, li, outerStop, lhsRest,
                   skip, ri, innerStop, lhsFmt, rhsFmt, res1, aEnd, bEnd>>
    /\ UNCHANGED <<hashVars, intVars>>

\* generic.rs:31-37: the rendering of lhs has returned (lhs is exhausted, or
\* the consumer stopped it), what it returned is dropped and the result is
\* put together.
CmpReturn ==
    /\ pc = "outer"
    /\ outerStop \/ Returns(lhs, lhsEnd, li)
    /\ ownErr' = (ownErr \/ (~outerStop /\ lhsEnd = "err"))
    /\ result' = Then(ret, IF rhs_is_remaining THEN "Less" ELSE "Equal")
    /\ pc' = "done"
    /\ UNCHANGED <<a, b, call, ret, rhs_is_remaining, pos, li, outerStop, lhsRest,
                   skip, ri, innerStop, lhsFmt, rhsFmt, res1, aEnd, bEnd>>
    /\ UNCHANGED <<hashVars, intVars>>

NextCmp ==
    \/ CmpCall
    \/ CmpCallSwapped
    \/ LhsEmit
    \/ RhsEmit
    \/ RhsFinish
    \/ CmpReturn

SpecCmp == InitCmp /\ [][NextCmp]_vars

(***************************************************************************)
(* generic::hash.  A Hasher is taken as the sequence of calls made on it:  *)
(* its state is a function of that sequence and of nothing else, and the   *)
(* bytes it has been fed are the concatenation of the calls' arguments.    *)
(***************************************************************************)
\* Hasher::write(bytes)
HasherWrite(h, bytes) == Append(h, [op |-> "write", bytes |-> bytes])

\* Hasher::write_u8(byte)
HasherWriteU8(h, byte) == Append(h, [op |-> "write_u8", bytes |-> <<byte>>])

\* the bytes a Hasher has been fed, in order
RECURSIVE Fed(_)
Fed(h) == IF h = <<>> THEN <<>> ELSE Head(h).bytes \o Fed(Tail(h))

\* the value being hashed, and how its fmt ends
hashee == (IF hpc = "b" THEN valsB ELSE valsA)[hn]
hashEnd == IF hpc = "b" THEN bEnd ELSE aEnd

\* a is hashed into one Hasher and b into another; their fmt may fail
InitHash ==
    /\ a \in Producers
    /\ b \in Producers
    /\ aEnd \in {"ok", "err"}
    /\ bEnd \in {"ok", "err"}
    /\ valsA = <<a>>
    /\ valsB = <<b>>
    /\ CmpIdle
    /\ HashIdle
    /\ NoInts

\* generic.rs:124-133: hash(v, hasherA) for the values v of valsA one after
\* another, then hash(v, hasherB) for those of valsB; the rendering of the
\* hashee starts.
HashCall ==
    /\ \/ hpc = "idle" /\ hst = "idle" /\ hpc' = "a" /\ hn' = 1
       \/ hpc = "a" /\ hst = "returned" /\ hn < Len(valsA) /\ hpc' = "a" /\ hn' = hn + 1
       \/ hpc = "a" /\ hst = "returned" /\ hn = Len(valsA) /\ hpc' = "b" /\ hn' = 1
       \/ hpc = "b" /\ hst = "returned" /\ hn < Len(valsB) /\ hpc' = "b" /\ hn' = hn + 1
    /\ hi' = 0
    /\ hashFmt' = 1
    /\ hst' = "fmt"
    /\ UNCHANGED <<hasherA, hasherB, valsA, valsB>>
    /\ UNCHANGED <<cmpVars, intVars>>

\* Adapter::write_str, generic.rs:127-130: the hashee emits its next chunk.
HashWriteStr ==
    /\ hst = "fmt"
    /\ hi < Len(hashee)
    /\ IF hpc = "a"
       THEN hasherA' = HasherWrite(hasherA, hashee[hi + 1]) /\ UNCHANGED hasherB
       ELSE hasherB' = HasherWrite(hasherB, hashee[hi + 1]) /\ UNCHANGED hasherA
    /\ hi' = hi + 1
    /\ UNCHANGED <<hpc, hashFmt, valsA, valsB, hn, hst>>
    /\ UNCHANGED <<cmpVars, intVars>>

\* HashFinish without the extra byte.
HashFinish_NoSentinel ==
    /\ hst = "fmt"
    /\ hi = Len(hashee)
    /\ hashEnd = "ok"
    /\ UNCHANGED <<hasherA, hasherB>>
    /\ hpc' = IF hpc = "b" /\ hn = Len(valsB) THEN "done" ELSE hpc
    /\ hst' = "returned"
    /\ UNCHANGED <<hi, hashFmt, valsA, valsB, hn>>
    /\ UNCHANGED <<cmpVars, intVars>>

\* generic.rs:133-136: the rendering has returned Ok; the extra 0xFF is fed
\* and hash returns.
HashFinish ==
    /\ hst = "fmt"
    /\ hi = Len(hashee)
    /\ hashEnd = "ok"
    /\ IF hpc = "a"
       THEN hasherA' = HasherWriteU8(hasherA, 255) /\ UNCHANGED hasherB
       ELSE hasherB' = HasherWriteU8(hasherB, 255) /\ UNCHANGED hasherA
    /\ hpc' = IF hpc = "b" /\ hn = Len(valsB) THEN "done" ELSE hpc
    /\ hst' = "returned"
    /\ UNCHANGED <<hi, hashFmt, valsA, valsB, hn>>
    /\ UNCHANGED <<cmpVars, intVars>>

\* generic.rs:133: the rendering has returned Err and unwrap panics.
HashPanic ==
    /\ hst = "fmt"
    /\ hi = Len(hashee)
    /\ hashEnd = "err"
    /\ hst' = "panic"
    /\ UNCHANGED <<hpc, hasherA, hasherB, hi, hashFmt, valsA, valsB, hn>>
    /\ UNCHANGED <<cmpVars, intVars>>

NextHash ==
    \/ HashCall
    \/ HashWriteStr
    \/ HashFinish
    \/ HashPanic

SpecHash == InitHash /\ [][NextHash]_vars

\* generic::eq, from the Ordering cmp returned
eq(o) == o = "Equal"

(***************************************************************************)
(* Reference: lhs.to_string().cmp(&rhs.to_string()), the order of the two  *)
(* concatenated renderings decided at their first point of difference.     *)
(***************************************************************************)
LexCmp(x, y) ==
    LET n == Min(Len(x), Len(y))
        D == {i \in 1..n : x[i] # y[i]}
    IN IF D # {}
       THEN LET d == CHOOSE i \in D : \A j \in D : i <= j
            IN IF x[d] < y[d] THEN "Less" ELSE "Greater"
       ELSE IF Len(x) < Len(y) THEN "Less"
       ELSE IF Len(x) > Len(y) THEN "Greater"
       ELSE "Equal"

\* C1: whenever a call of cmp has returned, its result is the lexicographic
\* byte order of the two concatenated renderings, whatever the chunking.
C1_CmpIsStringOrder ==
    pc = "done" => result = LexCmp(Concat(lhs), Concat(rhs))

\* C4: whenever a call has returned, eq is true exactly when the two
\* concatenated renderings are byte-identical.
C4_EqIffIdentical ==
    pc = "done" => (eq(result) <=> Concat(lhs) = Concat(rhs))

\* C6: once cmp(a, b) and then cmp(b, a) have returned, the second result
\* is the reverse of the first.
C6_Antisymmetry ==
    (pc = "done" /\ call = 2) => result = Reverse(res1)

\* C10 as stated: when a call has returned, fmt was called exactly once on
\* lhs and exactly once on rhs.
C10_EachRenderedOnce ==
    pc = "done" => (lhsFmt = 1 /\ rhsFmt = 1)

\* C10 amended: during a call fmt is called exactly once on lhs, and once on
\* rhs for every chunk lhs has emitted to the consumer (so not at all when
\* lhs emits no chunk).
C10_RhsRenderedPerLhsChunk ==
    pc \in {"outer", "inner", "done"} => (lhsFmt = 1 /\ rhsFmt = li)

\* C10 witness: a call has returned in which lhs emitted two chunks.
C10_Witness ==
    pc = "done" /\ li = 2 /\ rhsFmt = 2 /\ lhsFmt = 1

\* The comparator agrees with the string order whenever lhs emits a chunk.
CmpIsStringOrderIfLhsEmits ==
    (pc = "done" /\ Len(lhs) > 0) => result = LexCmp(Concat(lhs), Concat(rhs))
\* C5: once a and b have both been hashed, from Hashers in equal states, and
\* their concatenated renderings are byte-identical, the two Hashers have
\* received the same calls, so that they are in equal states.
C5_HashConsistent ==
    (hpc = "done" /\ Concat(a) = Concat(b)) => hasherA = hasherB

\* Values with byte-identical renderings feed their Hashers the same bytes.
HashFeedsSameBytes ==
    (hpc = "done" /\ Concat(a) = Concat(b)) => Fed(hasherA) = Fed(hasherB)

(***************************************************************************)
(* References for the integer comparators.                                 *)
(***************************************************************************)
\* lhs.cmp(&rhs) on integers
NumCmp(x, y) == IF NLt(x, y) THEN "Less" ELSE IF x = y THEN "Equal" ELSE "Greater"

\* the digits of v in base r >= 2 by repeated division, most significant
\* first, each digit a numeral; 0 is the one digit 0
RECURSIVE DigitsFrom(_, _, _)
DigitsFrom(v, r, acc) ==
    IF Len(acc) < 0 \/ NLt(v, r) THEN <<v>> \o acc
    ELSE DigitsFrom(NDiv(v, r), r, <<NMod(v, r)>> \o acc)

Digits(v, r) == DigitsFrom(v, r, <<>>)

\* the lexicographic order of two digit sequences
LexDigits(dx, dy) ==
    LET n == Min(Len(dx), Len(dy))
        D == {i \in 1..n : dx[i] # dy[i]}
    IN IF D # {}
       THEN LET d == CHOOSE i \in D : \A j \in D : i <= j
            IN IF NLt(dx[d], dy[d]) THEN "Less" ELSE "Greater"
       ELSE IF Len(dx) < Len(dy) THEN "Less"
       ELSE IF Len(dx) > Len(dy) THEN "Greater"
       ELSE "Equal"

\* the lexicographic order of the digits of x and y in base r >= 1.  In base
\* 1 a number is as many marks as it counts, and of two rows of marks the
\* shorter one is the lesser.
DigitsCmp(x, y, r) ==
    IF r = <<1>> THEN NumCmp(x, y) ELSE LexDigits(Digits(x, r), Digits(y, r))

\* v.to_string(): the decimal digits of v as ASCII bytes
to_string(v) ==
    LET ds == Digits(v, <<1, 0>>)
    IN [i \in 1..Len(ds) |-> 48 + Val(ds[i])]

\* a call of f has returned or panicked
Called(f) == ifn = f /\ ipc \in {"once", "twice"} /\ ist = "idle"

\* C2: whenever cmp_int has been called with a radix r >= 1, it has returned
\* the lexicographic order of the base-r digit sequences of its operands.
C2_CmpIntIsDigitOrder ==
    (Called("cmp_int") /\ radix # <<0>>) => ires = DigitsCmp(ilast, irlast, radix)

\* With a radix from 1 to T::MAX, cmp_int returns the order of the digits.
CmpIntIsDigitOrderUpToMax ==
    (Called("cmp_int") /\ radix # <<0>> /\ NLe(radix, MaxOf(ty)))
        => ires = DigitsCmp(ilast, irlast, radix)

\* C3: whenever cmp_dec has been called, on any type and in any build, it has
\* returned the order of the decimal strings of its operands, and the call
\* on the swapped operands has returned the reverse of the first call.
C3_CmpDecIsStringOrder ==
    Called("cmp_dec") =>
        /\ ires = LexCmp(to_string(ilast), to_string(irlast))
        /\ ipc = "twice" => (ires1 \in Ordering /\ ires = Reverse(ires1))

\* cmp_dec agrees with the order of the decimal strings when neither operand
\* lies from 2^16 to 10^5 - 1 (u32) or from 2^32 to 10^10 - 1 (u64, usize).
CmpDecIsStringOrderOffTheGap ==
    (/\ Called("cmp_dec")
     /\ \A v \in {ilhs, irhs} : \A n \in Narrower(ty) : \A k \in Thresholds(ty) :
            NLe(v, MaxOf(n)) \/ NLe(Pow10(k), v) \/ ty = "u128")
        => /\ ires = LexCmp(to_string(ilast), to_string(irlast))
           /\ ipc = "twice" => (ires1 \in Ordering /\ ires = Reverse(ires1))

\* C7: whenever cmp_int has been called with radix 1, it has returned the
\* numeric order of its operands.
C7_Radix1IsNumeric ==
    (Called("cmp_int") /\ radix = <<1>>) => ires = NumCmp(ilast, irlast)

\* C7 witness: cmp_int::<u64>(9, 10, 1) has returned Less, where the decimal
\* strings compare Greater.
C7_Witness ==
    /\ Called("cmp_int")
    /\ radix = <<1>>
    /\ ipc = "once"
    /\ ty = "u64"
    /\ ilhs = <<9>>
    /\ irhs = <<1, 0>>
    /\ ires = "Less"
    /\ LexCmp(to_string(ilhs), to_string(irhs)) = "Greater"

\* C8: whenever cmp_int has been called with radix 0, it has panicked, and
\* has made no call on its operands before.
C8_Radix0Panics ==
    (Called("cmp_int") /\ radix = <<0>>) => (ires = "panic" /\ iops = <<>>)

\* C8 witness: cmp_int has been called with radix 0 on two equal operands
\* and has panicked.
C8_Witness ==
    /\ Called("cmp_int")
    /\ radix = <<0>>
    /\ ilhs = irhs
    /\ ires = "panic"

\* C9: whenever cmp_int has been called with a radix above T::MAX, it has
\* returned the numeric order of its operands.
C9_RadixAboveMaxIsNumeric ==
    (Called("cmp_int") /\ NLt(MaxOf(ty), radix)) => ires = NumCmp(ilast, irlast)

\* With a radix above T::MAX that `as T` turns into 1, cmp_int returns the
\* numeric order.
RadixCastToOneIsNumeric ==
    (Called("cmp_int") /\ NLt(MaxOf(ty), radix) /\ AsCast(radix, ty) = <<1>>)
        => ires = NumCmp(ilast, irlast)

(***************************************************************************)
(* src/src/cmp/spec.rs: cmp and eq choosing an implementation by the types *)
(* of the operands.  Two integers of one type T go to cmp_dec and to ==,   *)
(* two strs to str::cmp and ==.  SpecDispatch makes that call and, on the  *)
(* same two values, the call of generic::cmp, as tests::fmt_cmp::check     *)
(* does; ty = "str" stands for two strs.                                   *)
(***************************************************************************)
\* <T as Display>::fmt of an integer or a str v: the whole rendering goes to
\* write_str in one chunk
DisplayOf(t, v) == <<IF t = "str" THEN v ELSE to_string(v)>>

InitDispatch ==
    /\ \/ /\ ty \in Types
          /\ ilhs \in Values[ty]
          /\ irhs \in Values[ty]
          /\ build \in Builds
          /\ a = DisplayOf(ty, ilhs)
          /\ b = DisplayOf(ty, irhs)
       \/ /\ ty = "str"
          /\ ilhs = <<0>>
          /\ irhs = <<0>>
          /\ build \in Builds
          /\ \E x \in ChunkSet : a = DisplayOf(ty, x)
          /\ \E y \in ChunkSet : b = DisplayOf(ty, y)
    /\ EndOk
    /\ CmpIdle
    /\ HashIdle
    /\ NoVals
    /\ IntIdle

\* SpecOrd::spec_cmp, spec.rs:109-113 (str) and 152-156 (integers), as
\* spec::cmp calls it (spec.rs:11-13)
spec_cmp ==
    /\ ipc = "ready"
    /\ ist = "idle"
    /\ IF ty = "str"
       THEN /\ Return(SliceCmp(a[1], b[1]))
            /\ ifn' = "str::cmp"
            /\ iops' = <<>>
            /\ UNCHANGED <<reversed, imax, imin, lmax, lmin, aligned>>
       ELSE /\ Imp(ilhs, irhs)
            /\ ifn' = "cmp_dec"
    /\ UNCHANGED <<ty, ilhs, irhs, radix, iexp, build, ires1>>
    /\ UNCHANGED <<cmpVars, hashVars>>

\* SpecEq::spec_eq, spec.rs:52-54 (integers) and 101-104 (str), as spec::eq
\* calls it (spec.rs:7-9)
spec_eq == IF ty = "str" THEN a[1] = b[1] ELSE ilhs = irhs

NextDispatch ==
    \/ spec_cmp
    \/ LogMax
    \/ LogMin
    \/ Invpow
    \/ Compare
    \/ Unwind
    \/ CmpCall
    \/ LhsEmit
    \/ RhsEmit
    \/ RhsFinish
    \/ CmpReturn

SpecDispatch == InitDispatch /\ [][NextDispatch]_vars

\* C11: once the dispatching cmp and generic::cmp have both been called on
\* two integers of one type or on two strs, the dispatching cmp has returned
\* what generic::cmp returned, and the dispatching eq gives what generic::eq
\* gives.
C11_FastPathIsGeneric ==
    (pc = "done" /\ ipc = "once" /\ ist = "idle")
        => /\ ires = result
           /\ spec_eq <=> eq(result)

\* The fast paths agree with generic::cmp on strs, and on integers when
\* neither lies from 2^16 to 10^5 - 1 (u32) or from 2^32 to 10^10 - 1 (u64,
\* usize).
FastPathIsGenericOffTheGap ==
    (/\ pc = "done" /\ ipc = "once" /\ ist = "idle"
     /\ \A v \in {ilhs, irhs} : \A n \in Narrower(ty) : \A k \in Thresholds(ty) :
            NLe(v, MaxOf(n)) \/ NLe(Pow10(k), v) \/ ty = "u128")
        => /\ ires = result
           /\ spec_eq <=> eq(result)

(***************************************************************************)
(* generic::cmp on producers whose fmt may return Err of its own accord    *)
(* once it has emitted its chunks.                                         *)
(***************************************************************************)
InitErr ==
    /\ a \in Producers
    /\ b \in Producers
    /\ aEnd \in {"ok", "err"}
    /\ bEnd \in {"ok", "err"}
    /\ CmpIdle
    /\ HashIdle
    /\ NoVals
    /\ NoInts

SpecErr == InitErr /\ [][NextCmp]_vars

\* C12 as stated: when a call of cmp in which a producer returned Err of its
\* own accord is over, it has exposed no Less, Equal or Greater.
C12_FailurePropagated ==
    (pc = "done" /\ ownErr) => result \notin Ordering

\* C12 amended: when such a call is over, it has returned an Ordering all
\* the same, the one the chunks emitted before the failure give: the order
\* of the two partial renderings, or Equal when lhs emitted no chunk.
C12_FailureDropped ==
    (pc = "done" /\ ownErr)
        => result = IF Len(lhs) = 0 THEN "Equal" ELSE LexCmp(Concat(lhs), Concat(rhs))

\* C12 witness: lhs has failed after rendering a strict prefix of what rhs
\* renders, and the call has returned Less.
C12_Witness ==
    /\ pc = "done"
    /\ ownErr
    /\ lhsEnd = "err"
    /\ ~outerStop
    /\ Len(lhs) > 0
    /\ result = "Less"

\* C13: whenever a call of cmp has returned in which lhs emitted no chunk at
\* all and the rendering of rhs is not empty, cmp has returned Less, so that
\* eq gives false.
C13_ChunklessLhsIsLess ==
    (pc = "done" /\ Len(lhs) = 0 /\ Concat(rhs) # <<>>)
        => (result = "Less" /\ ~eq(result))

\* An lhs emitting its empty rendering as one chunk of no bytes is Less than
\* a non-empty rhs.
OneEmptyChunkIsLess ==
    (pc = "done" /\ lhs = <<<<>>>> /\ Concat(rhs) # <<>>)
        => (result = "Less" /\ ~eq(result))

(***************************************************************************)
(* generic::cmp on two values and then on values that render the same with *)
(* the zero-length chunks left out, as tests::fmt_cmp::check compares a    *)
(* string under every chunking SplitFmt gives it.                          *)
(***************************************************************************)
\* the chunks of p that are not empty
NonEmptyChunks(p) == SelectSeq(p, LAMBDA c : c # <<>>)

\* cmp(a, b) once more, with the empty chunks of a, of b or of both left out
CmpCallRechunked ==
    /\ pc = "done"
    /\ call = 1
    /\ res1' = result
    /\ a' \in {a, NonEmptyChunks(a)}
    /\ b' \in {b, NonEmptyChunks(b)}
    /\ a' # a \/ b' # b
    /\ Enter(3)
    /\ UNCHANGED <<aEnd, bEnd>>
    /\ UNCHANGED <<hashVars, intVars>>

NextZero ==
    \/ CmpCall
    \/ CmpCallRechunked
    \/ LhsEmit
    \/ RhsEmit
    \/ RhsFinish
    \/ CmpReturn

SpecZero == InitCmp /\ [][NextZero]_vars

\* the bytes of the first n chunks producer p emits
Emitted(p, n) == Concat([i \in 1..n |-> ChunkAt(p, i)])

\* pos and skip count bytes, so that a chunk of no bytes leaves them alone:
\* between two lhs chunks pos is the number of bytes lhs has emitted, and
\* during a rendering of rhs skip is what is left of pos after the bytes rhs
\* has emitted.
PosAndSkipCountBytes ==
    /\ (pc = "outer" /\ ~outerStop) => pos = Len(Emitted(lhs, li))
    /\ pc = "inner" => skip = Max(0, pos - Len(Emitted(rhs, ri)))

\* C14: once cmp has returned for two values and then for the same
\* renderings without some of their zero-length chunks, both calls have
\* returned the same; and zero-length chunks change neither pos nor skip.
C14_ZeroLengthChunksAreNoOps ==
    /\ (pc = "done" /\ call = 3) => result = res1
    /\ PosAndSkipCountBytes

\* Zero-length chunks are no-ops as long as lhs is left with a chunk.
ZeroLengthChunksAreNoOpsIfLhsEmits ==
    /\ (pc = "done" /\ call = 3 /\ Len(lhs) > 0) => result = res1
    /\ PosAndSkipCountBytes

\* the places at which both renderings have a byte and the bytes differ
Mismatches ==
    {i \in 1..Min(Len(Concat(lhs)), Len(Concat(rhs))) : Concat(lhs)[i] # Concat(rhs)[i]}

\* the first of them
FirstMismatch == CHOOSE i \in Mismatches : \A j \in Mismatches : i <= j

\* C15: in a call on renderings with a mismatching byte pair, once the
\* running result is not Equal it is the order of the first mismatching
\* pair; the rendering of rhs and then the rendering of lhs have been
\* stopped; the last chunk either producer has emitted is the one holding
\* that pair; and the call returns the running result.  Such a call never
\* returns with the running result Equal.
C15_FirstMismatchDecides ==
    (pc \in {"inner", "outer", "done"} /\ Mismatches # {})
        => /\ pc = "done" => ret # "Equal"
           /\ ret # "Equal" =>
                /\ ret = IF Concat(lhs)[FirstMismatch] < Concat(rhs)[FirstMismatch]
                         THEN "Less" ELSE "Greater"
                /\ pc = "inner" => innerStop
                /\ pc = "outer" => outerStop
                /\ pc = "done" => result = ret
                /\ Len(Emitted(lhs, li - 1)) < FirstMismatch
                /\ FirstMismatch <= Len(Emitted(lhs, li))
                /\ Len(Emitted(rhs, ri - 1)) < FirstMismatch
                /\ FirstMismatch <= Len(Emitted(rhs, ri))

\* C15 witness: a call has returned Less on a mismatch in the first chunks,
\* with a chunk of lhs and a chunk of rhs never asked for.
C15_Witness ==
    /\ pc = "done"
    /\ Mismatches # {}
    /\ result = "Less"
    /\ li < Len(lhs)
    /\ ri < Len(rhs)

\* C16: whenever the outer consumer is ready for a chunk of lhs, pos is the
\* number of bytes of the lhs chunks accepted so far, the running result is
\* Equal and rhs renders the same first pos bytes as lhs; a rendering of rhs
\* has so far skipped pos bytes or, if fewer, all the bytes rhs has emitted,
\* it compares nothing before pos bytes are skipped, and it ends with pos
\* bytes skipped; and a running result other than Equal is the order of the
\* two renderings, decided at their first point of difference.
C16_CursorInvariant ==
    /\ (pc = "outer" /\ ~outerStop)
         => /\ pos = Len(Emitted(lhs, li))
            /\ ret = "Equal"
            /\ pos <= Len(Concat(rhs))
            /\ SubSeq(Concat(rhs), 1, pos) = SubSeq(Concat(lhs), 1, pos)
    /\ pc = "inner"
         => /\ pos - skip = Min(pos, Len(Emitted(rhs, ri)))
            /\ lhsRest # ChunkAt(lhs, li) => skip = 0
    /\ (pc \in {"outer", "done"} /\ li > 0) => skip = 0
    /\ (pc \in {"inner", "outer", "done"} /\ ret # "Equal")
         => ret = LexCmp(Concat(lhs), Concat(rhs))

\* C16 witness: the rendering of rhs for the second chunk of lhs has skipped
\* the one byte of the first chunk.
C16_Witness ==
    /\ pc = "inner"
    /\ li = 2
    /\ pos = 1
    /\ ri = 1
    /\ skip = 0
    /\ Len(rhs[1]) = 1

\* hash(v, h) has fed h, which had been fed nothing, the chunks of v one by
\* one and then the byte 0xFF
FedInFull(h, v) ==
    /\ Len(h) = Len(v) + 1
    /\ \A i \in 1..Len(v) : h[i] = [op |-> "write", bytes |-> v[i]]
    /\ h[Len(h)] = [op |-> "write_u8", bytes |-> <<255>>]
    /\ Fed(h) = Concat(v) \o <<255>>

\* hash(v, h) has so far fed h the first n chunks of v and nothing else
FedSoFar(h, v, n) ==
    /\ Len(h) = n
    /\ \A i \in 1..n : h[i] = [op |-> "write", bytes |-> v[i]]
    /\ Fed(h) = Concat(SubSeq(v, 1, n))

\* C17: while hash(a, hasherA) renders a, hasherA has been fed the bytes a
\* has emitted so far, in order, and nothing else; once the call has
\* returned, hasherA has been fed the bytes of the rendering of a and then
\* the one byte 0xFF; a has been rendered once.  Likewise for b and hasherB.
C17_HashFeedsRenderingThenFF ==
    /\ hst # "idle" => hashFmt = 1
    /\ (hpc = "a" /\ hst \in {"fmt", "panic"}) => FedSoFar(hasherA, a, hi)
    /\ (hpc = "b" /\ hst \in {"fmt", "panic"}) => FedSoFar(hasherB, b, hi)
    /\ ((hpc = "a" /\ hst = "returned") \/ hpc \in {"b", "done"}) => FedInFull(hasherA, a)
    /\ hpc = "done" => FedInFull(hasherB, b)
    /\ hpc \in {"idle", "a"} => hasherB = <<>>

\* C17 witness: hash(b, hasherB) has returned for a b that renders two bytes
\* in two chunks.
C17_Witness ==
    /\ hpc = "done"
    /\ hst = "returned"
    /\ Len(b) = 2
    /\ Len(b[1]) = 1
    /\ Len(b[2]) = 1
    /\ Len(hasherB) = 3

(***************************************************************************)
(* generic::hash on sequences of values: the values of valsA are hashed    *)
(* one after another into hasherA, then those of valsB into hasherB, as    *)
(* the derived Hash of a tuple or struct of Cmp<T> fields hashes them.     *)
(***************************************************************************)
\* the values a sequence holds at most
MaxVals == 2

\* the bytes of their renderings: a letter and 0xFF
HashBytes == {97, 255}

\* the values: those that render up to MaxLen bytes in one chunk, and the
\* one that emits no chunk
HashValues ==
    {<<c>> : c \in UNION {[1..k -> HashBytes] : k \in 0..MaxLen}} \cup {<<>>}

\* the renderings of a sequence of values
Renderings(vs) == [i \in 1..Len(vs) |-> Concat(vs[i])]

\* the sequences: up to MaxVals values that render MaxLen bytes in all
HashSeqs ==
    {vs \in UNION {[1..k -> HashValues] : k \in 1..MaxVals} :
        Len(Concat(Renderings(vs))) <= MaxLen}

InitHashSeq ==
    /\ a = <<>>
    /\ b = <<>>
    /\ EndOk
    /\ valsA \in HashSeqs
    /\ valsB \in HashSeqs
    /\ CmpIdle
    /\ HashIdle
    /\ NoInts

NextHashSeq ==
    \/ HashCall
    \/ HashWriteStr
    \/ HashFinish

SpecHashSeq == InitHashSeq /\ [][NextHashSeq]_vars

\* no rendering of the sequence holds the byte 0xFF
NoFF(vs) == \A i \in 1..Len(vs) : \A j \in 1..Len(Concat(vs[i])) : Concat(vs[i])[j] # 255

\* C18: once two sequences of values whose renderings hold no byte 0xFF have
\* been hashed into two Hashers that started in the same state, the Hashers
\* have been fed the same bytes only if the sequences are of the same length
\* and render the same value by value.
C18_NoPrefixCollision ==
    (/\ hpc = "done"
     /\ NoFF(valsA)
     /\ NoFF(valsB)
     /\ Fed(hasherA) = Fed(hasherB))
        => Renderings(valsA) = Renderings(valsB)

\* C18 witness: two sequences of two values have been hashed that render the
\* same bytes in all, without 0xFF, but not value by value, and the Hashers
\* have been fed different bytes.
C18_Witness ==
    /\ hpc = "done"
    /\ Len(valsA) = 2
    /\ Len(valsB) = 2
    /\ NoFF(valsA)
    /\ NoFF(valsB)
    /\ Concat(Renderings(valsA)) = Concat(Renderings(valsB))
    /\ Renderings(valsA) # Renderings(valsB)
    /\ Fed(hasherA) # Fed(hasherB)

\* Without the condition on 0xFF the Hashers can be fed the same bytes by
\* sequences that render differently (this formula does not hold).
NoPrefixCollisionEvenWithFF ==
    (hpc = "done" /\ Fed(hasherA) = Fed(hasherB))
        => Renderings(valsA) = Renderings(valsB)

(***************************************************************************)
(* generic::cmp on producers that may be unbounded: once it has emitted    *)
(* its chunks, a producer returns Ok or emits its last chunk again and     *)
(* again, until the consumer returns Err.  An unbounded producer is        *)
(* followed through MaxEmit chunks of a rendering.  A call, once made,     *)
(* keeps taking steps.                                                     *)
(***************************************************************************)
InitInf ==
    /\ a \in Producers
    /\ b \in Producers
    /\ aEnd \in {"ok", "loop"}
    /\ bEnd \in {"ok", "loop"}
    /\ aEnd = "loop" => Len(a) > 0
    /\ bEnd = "loop" => Len(b) > 0
    /\ CmpIdle
    /\ HashIdle
    /\ NoVals
    /\ NoInts

NextInf ==
    \/ CmpCall
    \/ LhsEmit
    \/ RhsEmit
    \/ RhsFinish
    \/ CmpReturn

SpecInf == InitInf /\ [][NextInf]_vars /\ WF_vars(NextInf)

\* producer p emits non-empty chunks for ever
Unbounded(p, end) == end = "loop" /\ p[Len(p)] # <<>>

\* two renderings that differ do so within their first Horizon bytes
Horizon == 3 * MaxLen

\* the first Horizon bytes of the rendering of p, or all of it if it is shorter
Rendering(p, end) ==
    LET r == IF Unbounded(p, end) THEN Emitted(p, Len(p) + Horizon) ELSE Concat(p)
    IN SubSeq(r, 1, Min(Len(r), Horizon))

\* the renderings of lhs and rhs have a byte each at some place, and the
\* two bytes differ
Differ ==
    \E i \in 1..Min(Len(Rendering(lhs, lhsEnd)), Len(Rendering(rhs, rhsEnd))) :
        Rendering(lhs, lhsEnd)[i] # Rendering(rhs, rhsEnd)[i]

\* the cases in which cmp is to terminate
Covered ==
    \/ Differ
    \/ lhsEnd = "ok" /\ Unbounded(rhs, rhsEnd)
    \/ rhsEnd = "ok" /\ Unbounded(lhs, lhsEnd)

\* C19, what a call returns and how a rendering of rhs ends: when a call on
\* a finite lhs and an rhs emitting non-empty chunks for ever has returned,
\* it has returned Less or the order of a mismatch; on a finite rhs and an
\* lhs emitting non-empty chunks for ever, Greater or the order of a
\* mismatch; and a rendering of rhs is stopped as soon as rhs has emitted a
\* chunk reaching beyond the current chunk of lhs.
C19_UnboundedProducers ==
    /\ (pc = "done" /\ lhsEnd = "ok" /\ Unbounded(rhs, rhsEnd))
         => /\ result \in {"Less", "Greater"}
            /\ result = LexCmp(Rendering(lhs, lhsEnd), Rendering(rhs, rhsEnd))
    /\ (pc = "done" /\ rhsEnd = "ok" /\ Unbounded(lhs, lhsEnd))
         => /\ result \in {"Less", "Greater"}
            /\ result = LexCmp(Rendering(lhs, lhsEnd), Rendering(rhs, rhsEnd))
    /\ (pc = "inner" /\ Len(Emitted(rhs, ri)) > pos + Len(ChunkAt(lhs, li)))
         => innerStop

\* The same as long as lhs emits a chunk.
UnboundedProducersIfLhsEmits ==
    Len(lhs) > 0 => C19_UnboundedProducers

\* C19, termination: a call of cmp in one of the cases returns.
CmpTerminates == (pc = "outer" /\ Covered) ~> pc = "done"

\* A call on two producers that emit the same bytes for ever does not return
\* (this formula does not hold).
CmpAlwaysTerminates == pc = "outer" ~> pc = "done"

(***************************************************************************)
(* Sealed::invpow on its own: self.invpow(base, exp) for self of each      *)
(* integer type, base and exp of type u32.                                 *)
(***************************************************************************)
MaxExp == 4

\* the bases tried: 1, 2, 10 and 16, and for the types narrower than u32 a
\* base beyond their T::MAX
PowBases ==
    [t \in Types |->
        {N(1), N(2), N(10), N(16)}
        \cup IF Bits(t) < 32 THEN {N(300), N(65537)} ELSE {}]

\* the exponents tried: 0..MaxExp and u32::MAX
PowExps == {N(e) : e \in 0..MaxExp} \cup {MaxOf("u32")}

InitPow ==
    /\ a = <<>>
    /\ b = <<>>
    /\ EndOk
    /\ CmpIdle
    /\ HashIdle
    /\ NoVals
    /\ ty \in Types
    /\ ilhs \in Values[ty]
    /\ irhs = <<0>>
    /\ build \in Builds
    /\ radix \in PowBases[ty]
    /\ iexp \in PowExps
    /\ ipc = "ready"
    /\ ifn = "none"
    /\ NoCall
    /\ ires = "none"
    /\ iops = <<>>
    /\ ires1 = "none"

\* ilhs.invpow(radix, iexp)
InvpowCall ==
    /\ ipc = "ready"
    /\ ipc' = "once"
    /\ ifn' = "invpow"
    /\ aligned' = invpow(ty, ilhs, radix, iexp, build)
    /\ iops' = Append(iops, "invpow")
    /\ UNCHANGED <<ty, ilhs, irhs, radix, iexp, build, ist, reversed, imax, imin,
                   lmax, lmin, ires, ires1>>
    /\ UNCHANGED <<cmpVars, hashVars>>

NextPow ==
    \/ InvpowCall

SpecPow == InitPow /\ [][NextPow]_vars

\* floor(v / base^exp) for base >= 1, by exp divisions by base; the quotient
\* no longer changes once it is 0
RECURSIVE FloorDivPow(_, _, _)
FloorDivPow(v, base, exp) ==
    IF exp = <<0>> \/ v = <<0>> \/ base = <<1>> THEN v
    ELSE FloorDivPow(NDiv(v, base), base, NSub(exp, <<1>>))

\* base^exp is at most v; exp is a small number
RECURSIVE PowFits(_, _, _)
PowFits(v, base, exp) ==
    \/ exp = <<0>> /\ NLe(<<1>>, v)
    \/ exp # <<0>> /\ base = <<1>> /\ NLe(<<1>>, v)
    \/ /\ exp # <<0>>
       /\ base # <<1>>
       /\ v # <<0>>
       /\ PowFits(NDiv(v, base), base, NSub(exp, <<1>>))

\* C20: invpow(v, base, exp) returns floor(v / base^exp) for every v of each
\* integer type, every base >= 1 and every exp >= 0, and no step of it
\* overflows (it does not panic, nor wrap to another quotient).
C20_InvpowIsFloorDivPow ==
    (ifn = "invpow" /\ ipc = "once")
        => aligned = Ok(FloorDivPow(ilhs, radix, iexp))

\* The same as long as base^exp is no more than T::MAX.
InvpowIsFloorDivPowIfPowerFits ==
    (ifn = "invpow" /\ ipc = "once" /\ PowFits(MaxOf(ty), radix, iexp))
        => aligned = Ok(FloorDivPow(ilhs, radix, iexp))

\* The same inside cmp_int and cmp_dec, when the radix is no more than T::MAX
\* and the digit counts are the exact ones.
InvpowIsFloorDivPowInCmpInt ==
    (/\ ist = "lt"
     /\ NLe(IF ifn = "cmp_int" THEN radix ELSE <<1, 0>>, MaxOf(ty))
     /\ ~lmax.panic
     /\ ~lmin.panic
     /\ lmax.val = checked_log(imax, IF ifn = "cmp_int" THEN radix ELSE <<1, 0>>).val
     /\ lmin.val = checked_log(imin, IF ifn = "cmp_int" THEN radix ELSE <<1, 0>>).val)
        => aligned = Ok(FloorDivPow(imax, IF ifn = "cmp_int" THEN radix ELSE <<1, 0>>, iexp))

(***************************************************************************)
(* The specialised checked_log10 of u32, u64, u128 and usize on its own,   *)
(* in two steps: the division by the threshold, and the assertions and     *)
(* the cast to the narrower type with the logarithm taken there.           *)
(***************************************************************************)
Log10Types == {"u32", "u64", "u128", "usize"}

\* one branch of the division: self is at or above 10^k and is divided by
\* it, or is left alone; x is the addend, to the type self is then cast to,
\* and bound the left side of the assert! before the cast
Divided(self, k, to, top) ==
    [self |-> IF NLe(Pow10(k), self) THEN NDiv(self, Pow10(k)) ELSE self,
     x |-> IF NLe(Pow10(k), self) THEN k ELSE 0,
     to |-> to,
     bound |-> NDiv(top, Pow10(k))]

\* checked_log10 up to the assertions: traits.rs:104-109 (u32), 124-129
\* (u64), 141-142 and 147-152 (u128), 182 (usize)
Log10Divide(t, self) ==
    CASE t = "u32" -> Divided(self, 5, "u16", MaxOf("u32"))
      [] t = "u64" -> Divided(self, 10, "u32", MaxOf("u64"))
      [] t = "u128" ->
            IF NLe(Pow10(32), self)
            THEN Divided(self, 32, "u32", MaxOf("u128"))
            ELSE Divided(self, 16, "u64", NSub(Pow10(32), <<1>>))
      [] t = "usize" -> Divided(AsCast(self, "u64"), 10, "u32", MaxOf("u64"))

\* checked_log10 from the assertions on: traits.rs:112-115 (u32), 130-132
\* (u64), 143-145 and 153-158 (u128).  debug_assert! is tested with debug
\* assertions only.
Log10Narrow(st, bld) ==
    IF ~NLe(st.bound, MaxOf(st.to)) THEN Panic
    ELSE IF bld = "debug" /\ ~NLe(st.self, MaxOf(st.to)) THEN Panic
    ELSE LET l == log(st.to, AsCast(st.self, st.to), <<1, 0>>)
         IN IF l.panic THEN Panic ELSE Ok(l.val + st.x)

InitLog ==
    /\ a = <<>>
    /\ b = <<>>
    /\ EndOk
    /\ CmpIdle
    /\ HashIdle
    /\ NoVals
    /\ ty \in Log10Types
    /\ ilhs \in Values[ty]
    /\ irhs = <<0>>
    /\ build \in Builds
    /\ IntIdle

\* ilhs.checked_log10() is called and comes to its assertions; imax is self
\* there and lmin the addend
Log10Call ==
    /\ ipc = "ready"
    /\ ist = "idle"
    /\ ifn' = "checked_log10"
    /\ ist' = "narrow"
    /\ imax' = Log10Divide(ty, ilhs).self
    /\ lmin' = Ok(Log10Divide(ty, ilhs).x)
    /\ iops' = <<>>
    /\ UNCHANGED <<ty, ilhs, irhs, radix, iexp, build, ipc, reversed, imin, lmax,
                   aligned, ires, ires1>>
    /\ UNCHANGED <<cmpVars, hashVars>>

\* the assertions, the cast and the logarithm of the narrower type; the
\* call returns lmax, or panics
Log10Return ==
    /\ ist = "narrow"
    /\ lmax' = Log10Narrow(Log10Divide(ty, ilhs), build)
    /\ iops' = Append(iops, "log")
    /\ ist' = "idle"
    /\ ipc' = "once"
    /\ UNCHANGED <<ty, ilhs, irhs, radix, iexp, build, ifn, reversed, imax, imin,
                   lmin, aligned, ires, ires1>>
    /\ UNCHANGED <<cmpVars, hashVars>>

NextLog ==
    \/ Log10Call
    \/ Log10Return

SpecLog == InitLog /\ [][NextLog]_vars

\* the type checked_log10 casts self to
NarrowTo == Log10Divide(ty, ilhs).to

\* The two steps make up the checked_log10 that cmp_dec calls.
Log10StepsAreCheckedLog10 ==
    Called("checked_log10") => lmax = checked_log10(ty, ilhs, build)

\* C21: for every v of u32, u64, u128 and usize, the specialised
\* checked_log10 returns what the repeated division checked_log(10) returns:
\* the number of times v can be divided by 10 before it drops below 10.
C21_Log10IsCheckedLog ==
    Called("checked_log10") => lmax = checked_log(ilhs, <<1, 0>>)

\* The same as long as self is no more than the maximum of the narrower
\* type where it is cast.
Log10IsCheckedLogIfSelfFits ==
    (Called("checked_log10") /\ NLe(imax, MaxOf(NarrowTo)))
        => lmax = checked_log(ilhs, <<1, 0>>)

\* The same for u128.
Log10IsCheckedLogU128 ==
    (Called("checked_log10") /\ ty = "u128") => lmax = checked_log(ilhs, <<1, 0>>)

\* C22: where the specialised checked_log10 of u32, u64 and u128 casts self
\* to the narrower type, self is at most the maximum of that type, for every
\* input: the assertions hold, the cast loses no bits and the call does not
\* panic.
C22_NarrowingFits ==
    /\ (ifn = "checked_log10" /\ ist = "narrow" /\ ty # "usize")
          => /\ NLe(imax, MaxOf(NarrowTo))
             /\ AsCast(imax, NarrowTo) = imax
    /\ (Called("checked_log10") /\ ty # "usize") => ~lmax.panic

\* The same of the assert! before each cast, which bounds self by the
\* greatest value the taken branch can leave, and of every cast of u128.
AssertedBoundsFit ==
    ifn = "checked_log10" =>
        /\ NLe(Log10Divide(ty, ilhs).bound, MaxOf(NarrowTo))
        /\ ty = "u128" => NLe(Log10Divide(ty, ilhs).self, MaxOf(NarrowTo))
        /\ (ty = "u128" /\ Called("checked_log10")) => ~lmax.panic

\* C22, cmp_dec: no call of cmp_dec panics (this formula does not hold under
\* SpecInt).
CmpDecNeverPanics ==
    Called("cmp_dec") => ires # "panic"

\* No call of cmp_dec on u8, u16 or u128 panics.
CmpDecNeverPanicsOffTheGap ==
    (Called("cmp_dec") /\ ty \in {"u8", "u16", "u128"}) => ires # "panic"

=============================================================================
